---- MODULE Spec2Model ----
(***************************************************************************)
(* Model of src/resy-bot.ts: the booking conversation state machine        *)
(* (handleMessage), the reservation-client parsers it uses, and the        *)
(* message gateway loop (the onMessage callback given to startWatching).   *)
(*                                                                         *)
(* A text is a sequence of symbols.  A symbol is either one character (a   *)
(* string of length 1, a member of Chars) or one formatted line of a bot   *)
(* reply (any other string).  Optional fields of the session (TypeScript   *)
(* `field?: T`) are sequences of length 0 (undefined) or 1 (the value).    *)
(***************************************************************************)
EXTENDS Integers, Sequences, FiniteSets, Bags, TLC

(***************************************************************************)
(* Bounds of the model.                                                    *)
(***************************************************************************)
\* Messages the user types over a run.
MaxGuid == 5
\* Largest wall-clock instant; the clock starts at 0.
MaxTime == 1
\* Irregularities over a run: external calls (requests and sends) that fail,
\* messages the user types while a reply is still on its way back, and events
\* the transport delivers a second time.
MaxFaults == 1
\* Holds (book tokens) the upstream issues over a run.
MaxHolds == 2

None == << >>
Some(x) == << x >>
Present(f) == f # << >>
Val(f) == f[1]

Min(a, b) == IF a < b THEN a ELSE b

(***************************************************************************)
(* Characters and the string functions of handleMessage.                   *)
(***************************************************************************)
UpperAlpha == << "A","B","C","D","E","F","G","H","I","J","K","L","M",
                 "N","O","P","Q","R","S","T","U","V","W","X","Y","Z" >>
LowerAlpha == << "a","b","c","d","e","f","g","h","i","j","k","l","m",
                 "n","o","p","q","r","s","t","u","v","w","x","y","z" >>
Digits == << "0","1","2","3","4","5","6","7","8","9" >>
WhiteSpace == { " ", "\n", "\t" }
Punct == { ",", ".", "-", "+", ":" }

Range(f) == { f[i] : i \in DOMAIN f }
UpperSet == Range(UpperAlpha)
DigitSet == Range(Digits)
Chars == UpperSet \cup Range(LowerAlpha) \cup DigitSet \cup WhiteSpace \cup Punct

\* String.prototype.toLowerCase, one symbol.
LowerOf == [ c \in UpperSet |->
             LowerAlpha[CHOOSE i \in DOMAIN UpperAlpha : UpperAlpha[i] = c] ]
LowerChar(c) == IF c \in UpperSet THEN LowerOf[c] ELSE c

\* String.prototype.toLowerCase.
ToLowerCase(s) == [ i \in DOMAIN s |-> LowerChar(s[i]) ]

\* String.prototype.trim: drops leading and trailing white space.
Trim(s) ==
  LET keep == { i \in DOMAIN s : s[i] \notin WhiteSpace } IN
  IF keep = {} THEN << >>
  ELSE LET lo == CHOOSE i \in keep : \A j \in keep : i <= j
           hi == CHOOSE i \in keep : \A j \in keep : j <= i
       IN SubSeq(s, lo, hi)

DigitVal(c) == (CHOOSE i \in DOMAIN Digits : Digits[i] = c) - 1

\* Number of leading decimal digits of s.
DigitRun(s) ==
  IF \A i \in DOMAIN s : s[i] \in DigitSet THEN Len(s)
  ELSE (CHOOSE i \in DOMAIN s :
          /\ s[i] \notin DigitSet
          /\ \A j \in 1..(i-1) : s[j] \in DigitSet) - 1

RECURSIVE DecimalValue(_)
DecimalValue(s) ==
  IF s = << >> THEN 0
  ELSE 10 * DecimalValue(SubSeq(s, 1, Len(s) - 1)) + DigitVal(s[Len(s)])

\* parseInt(s, 10): skips leading white space, takes an optional sign and the
\* longest run of digits that follows, ignores the rest; NaN when there is no
\* digit at that place.
ParseInt(s) ==
  LET lead == { i \in DOMAIN s : \A j \in 1..i : s[j] \in WhiteSpace }
      t    == SubSeq(s, Cardinality(lead) + 1, Len(s))
      sgn  == IF t # << >> /\ t[1] \in { "+", "-" } THEN t[1] ELSE ""
      u    == IF sgn = "" THEN t ELSE Tail(t)
      n    == DigitRun(u)
  IN IF n = 0 THEN [ nan |-> TRUE, val |-> 0 ]
     ELSE [ nan |-> FALSE,
            val |-> IF sgn = "-" THEN 0 - DecimalValue(SubSeq(u, 1, n))
                    ELSE DecimalValue(SubSeq(u, 1, n)) ]

\* Whether sequence w occurs in s as a contiguous block (String.includes).
Includes(s, w) ==
  \E i \in 0..(Len(s) - Len(w)) : SubSeq(s, i + 1, i + Len(w)) = w

\* s.split(/\s+/) after replace(/[,.\-]/g, " ").trim(): the maximal runs of
\* symbols that are neither white space nor one of , . -
IsSep(c) == c \in WhiteSpace \cup { ",", ".", "-" }
SplitWords(s) ==
  LET starts == { i \in DOMAIN s :
                    ~IsSep(s[i]) /\ (i = 1 \/ IsSep(s[i-1])) }
      EndOf(i) == CHOOSE k \in i..Len(s) :
                    /\ \A j \in i..k : ~IsSep(s[j])
                    /\ (k = Len(s) \/ IsSep(s[k+1]))
  IN { SubSeq(s, i, EndOf(i)) : i \in starts }

(***************************************************************************)
(* Inbound texts the user types (raw, as the transport delivers them).     *)
(***************************************************************************)
RESET     == << "r","e","s","e","t" >>
STARTOVER == << "s","t","a","r","t"," ","o","v","e","r" >>
BACK      == << "b","a","c","k" >>
YES       == << "y","e","s" >>
NO        == << "n","o" >>
CONFIRM   == << "c","o","n","f","i","r","m" >>
BOOK      == << "b","o","o","k" >>

Texts ==
  { RESET,
    << " ","S","t","a","r","t"," ","O","v","e","r" >>,
    BACK,
    << "Y","E","S"," " >>,
    NO,
    BOOK,
    << "1" >>,
    << "2","x" >>,
    << "9" >> }

(***************************************************************************)
(* Session (interface State, lines 24-36).                                 *)
(***************************************************************************)
Steps == { "idle", "venue_list", "slot_list", "confirm" }

\* reset(): state = { step: "idle" }
IdleState ==
  [ step |-> "idle", search |-> None, venues |-> None, pickedVenue |-> None,
    slots |-> None, pickedSlot |-> None, bookToken |-> None,
    bookExpires |-> None ]

(***************************************************************************)
(* Dates.  A Date is its time value; Invalid Date has the time value NaN,  *)
(* written NaNTime, and every comparison with it is false.                 *)
(***************************************************************************)
NaNTime == -1
DateGT(a, b) == a # NaNTime /\ b # NaNTime /\ a > b

(***************************************************************************)
(* What the external services answer.                                      *)
(***************************************************************************)
\* extractSearch results (SearchParams; lat/lng only feed request bodies and
\* are left out).
SearchSet ==
  { [ query |-> "pizza", location |-> << "S","o","h","o",","," ","N","Y" >>,
      day |-> "d1", party_size |-> 2 ] }

Hit(id, name, locality, neighborhood) ==
  [ id |-> id, name |-> name, locality |-> locality,
    neighborhood |-> neighborhood ]

hitA == Hit(Some("v1"), Some("Alba"),   Some(<< "N","Y","C" >>), Some(<< "S","O","H","O" >>))
hitB == Hit(Some("v2"), Some("Bodega"), Some(<< "L","A" >>), None)
hitC == Hit(Some("v3"), Some("Carbo"),  None, Some(<< "N","o","h","o" >>))
hitD == Hit(None,       None,           Some(<< "L","A" >>), Some(<< "W","e","s","t" >>))
hitE == Hit(Some("v5"), Some("Elio"),   Some(<< "L","A" >>), None)
hitF == Hit(Some("v6"), Some("Fumo"),   Some(<< "S","F" >>), None)

\* data.search.hits of the search responses: none; two hits, one of them in
\* the searched place; six hits, none of them there.
SearchResponses ==
  { << >>,
    << hitB, hitA >>,
    << hitB, hitC, hitD, hitE, hitF, hitB >> }

RawSlot(start, type, token) == [ start |-> start, type |-> type, token |-> token ]

rawS1 == RawSlot(Some(<< "6","-","2"," ","1","9",":","0","0",":","0","0" >>), Some("Patio"), Some("c1"))
rawS2 == RawSlot(Some(<< "6","-","2"," ","2","0",":","3","0",":","0","0" >>), None, Some("c2"))
rawS3 == RawSlot(None, Some("Bar"), None)

\* data.results.venues of the availability responses.
AvailResponses ==
  { << >>,
    << [ id |-> Some("v1"), slots |-> Some(<< rawS1, rawS2 >>) ] >>,
    << [ id |-> Some("zz"), slots |-> Some(<< rawS3 >>) ],
       [ id |-> Some("v2"), slots |-> None ] >> }

\* The book token value of the n-th hold the upstream issues.
TokenOf(n) == << "k1", "k2", "k3", "k4" >>[n]

\* book_token.date_expires of a details response: missing, a parseable
\* instant, or a string new Date() cannot parse.
ExpiryAnswers == { None } \cup { Some(t) : t \in 0..MaxTime } \cup { Some(NaNTime) }

(***************************************************************************)
(* Parsers (lines 98-131).                                                 *)
(***************************************************************************)
OrElse(opt, dflt) == IF Present(opt) THEN Val(opt) ELSE dflt

Take(s, n) == SubSeq(s, 1, Min(Len(s), n))

\* the .map() of parseVenues: a hit as a Venue (cuisine, rating, reviews and
\* price feed the formatter only and are left out).
ToVenue(h) ==
  [ id |-> OrElse(h.id, "0"), name |-> OrElse(h.name, "Unknown"),
    neighborhood |-> OrElse(h.neighborhood, << >>),
    city |-> OrElse(h.locality, << >>) ]

\* the filter predicate of parseVenues (lines 111-115).
IsLocal(v, location) ==
  LET locWords == SplitWords(ToLowerCase(location))
      vCity == ToLowerCase(v.city \o << " " >> \o v.neighborhood)
  IN \E w \in locWords : Len(w) > 2 /\ Includes(vCity, w)

VenueCap == 5

\* Faulty variant: the list comes back in reverse order.
LocationFilterBug(all, location) ==
  LET Keep(v) == IsLocal(v, location)
      local == SelectSeq(all, Keep)
      kept == Take(IF Len(local) > 0 THEN local ELSE all, VenueCap)
  IN [ i \in DOMAIN kept |-> kept[Len(kept) + 1 - i] ]

\* lines 106-118: the post-filter with its fallback and cap.
LocationFilter(all, location) ==
  LET Keep(v) == IsLocal(v, location)
      local == SelectSeq(all, Keep)
  IN Take(IF Len(local) > 0 THEN local ELSE all, VenueCap)

\* Faulty variant: no fallback to the unfiltered list.
parseVenuesBug(hits, location) ==
  LET all == [ i \in DOMAIN hits |-> ToVenue(hits[i]) ]
      Keep(v) == IsLocal(v, location)
  IN Take(SelectSeq(all, Keep), VenueCap)

parseVenues(hits, location) ==
  LET all == [ i \in DOMAIN hits |-> ToVenue(hits[i]) ]
  IN LocationFilter(all, location)

\* s.date?.start?.split(" ")[1]?.slice(0, 5) ?? "??:??"
ClockOf(start) ==
  IF ~Present(start) THEN << "?","?",":","?","?" >>
  ELSE LET s == Val(start)
           sp == { i \in DOMAIN s : s[i] = " " }
       IN IF sp = {} THEN << "?","?",":","?","?" >>
          ELSE LET first == CHOOSE i \in sp : \A j \in sp : i <= j
                   rest == SubSeq(s, first + 1, Len(s))
                   sp2 == { i \in DOMAIN rest : rest[i] = " " }
                   part == IF sp2 = {} THEN rest
                           ELSE SubSeq(rest, 1, (CHOOSE i \in sp2 : \A j \in sp2 : i <= j) - 1)
               IN Take(part, 5)

\* the .map() of parseSlots (end is converted like start and is left out).
ToSlot(s) ==
  [ start |-> ClockOf(s.start), type |-> OrElse(s.type, "Standard"),
    token |-> OrElse(s.token, "") ]

parseSlots(venues, venueId) ==
  LET hit == { i \in DOMAIN venues : venues[i].id = Some(venueId) }
  IN IF venues = << >> THEN << >>
     ELSE LET v == IF hit # {} THEN venues[CHOOSE i \in hit : \A j \in hit : i <= j]
                   ELSE venues[1]
              ss == OrElse(v.slots, << >>)
          IN [ i \in DOMAIN ss |-> ToSlot(ss[i]) ]

(***************************************************************************)
(* Formatters (lines 141-168): a reply is the sequence of its lines; only  *)
(* the data that tells two replies apart is kept.                          *)
(***************************************************************************)
SlotDisplay == 10

RECURSIVE SlotLines(_)
SlotLines(slots) ==
  IF slots = << >> THEN << >>
  ELSE Head(slots).start \o << Head(slots).type >> \o SlotLines(Tail(slots))

fmtVenueList(venues, s) ==
  << "#venues", s.query, s.day >> \o [ i \in DOMAIN venues |-> venues[i].name ]

fmtSlotList(venue, slots, day) ==
  IF Len(slots) = 0 THEN << "#noslots", venue.name, day >>
  ELSE << "#slots", venue.name, day >> \o SlotLines(Take(slots, SlotDisplay))

fmtConfirm(venue, slot, day) ==
  << "#confirm", venue.name, day >> \o slot.start \o << slot.type >>

fmtSuccess(venue, slot, day) ==
  << "#booked", venue.name, day >> \o slot.start \o << slot.type >>

ResetReply    == << "#fresh" >>
SearchPrompt  == << "#whatsearch" >>
NoResults(s)  == << "#noresults", s.query >> \o s.location
SlotPrompt(n) == << "#pick", ToString(n) >>
SlotTaken     == << "#taken" >>
ConfirmPrompt == << "#yesno" >>
PaymentReply(venue) == << "#payment", venue.name >>
ErrorReply(message) == << "#error", message >>

(***************************************************************************)
(* State.                                                                  *)
(***************************************************************************)
VARIABLES
  state,          \* the session (let state: State)
  botSentTexts,   \* Set<string>, in insertion order
  seenGuids,      \* Set<string>
  processing,     \* let processing
  flights,        \* the onMessage invocations suspended at an await
  now,            \* the wall clock (new Date())
  nextGuid,       \* transport: the guid of the next message the user types
  echoes,         \* transport: sent replies not yet delivered back
  holds,          \* upstream: number of book tokens issued so far
  invoked,        \* history: handleMessage invocations per guid (a bag)
  again,          \* history: guids the transport has delivered more than once
  booked,         \* history: book tokens for which apiBook has succeeded
  faults,         \* environment: irregularities so far
  pvHits,         \* parser check: data.search.hits given to parseVenues
  pvLocation,     \* parser check: the location given to parseVenues
  parsed,         \* parser check: the venue list obtained, once there is one
  passes          \* parser check: times the post-filter has been applied

\* The variables of the parser check; the bot never touches them.
pure == << pvHits, pvLocation, parsed, passes >>

vars == << state, botSentTexts, seenGuids, processing, flights, now, nextGuid,
           echoes, holds, invoked, again, booked, faults, pure >>

Init ==
  /\ state = IdleState
  /\ botSentTexts = << >>
  /\ seenGuids = {}
  /\ processing = FALSE
  /\ flights = {}
  /\ now = 0
  /\ nextGuid = 1
  /\ echoes = {}
  /\ holds = 0
  /\ invoked = EmptyBag
  /\ again = {}
  /\ booked = {}
  /\ faults = 0
  /\ pvHits = << >>
  /\ pvLocation = << >>
  /\ parsed = None
  /\ passes = 0

(***************************************************************************)
(* handleMessage (lines 228-348), from its entry to its first await or to  *)
(* its return.  The result is the session as mutated so far, the place     *)
(* reached (pc: an awaited call, or "send" when it returned), the reply    *)
(* when it returned, the locals that live across the await, and the        *)
(* number of self re-dispatches.                                           *)
(***************************************************************************)
Returned(st, reply, depth) ==
  [ state |-> st, pc |-> "send", reply |-> reply, venue |-> None,
    slot |-> None, depth |-> depth ]

Awaits(st, call, venue, slot, depth) ==
  [ state |-> st, pc |-> call, reply |-> << >>, venue |-> venue,
    slot |-> slot, depth |-> depth ]

\* line 229
Lowered(text) == Trim(ToLowerCase(text))

\* Faulty variant: the second reset phrase is forgotten.
IsResetCommandBug(lower) == lower = RESET

\* line 232
IsResetCommand(lower) == lower \in { RESET, STARTOVER }

\* lines 261-262: the venue number, or 0 when the input picks no venue.
VenueNumber(lower, st) ==
  LET num == ParseInt(lower)
      n == IF Present(st.venues) THEN Len(Val(st.venues)) ELSE 0
  IN IF num.nan \/ num.val < 1 \/ num.val > n THEN 0 ELSE num.val

\* Faulty variant: the limit of ten offered slots is not applied.
SlotNumberBug(lower, st) ==
  LET num == ParseInt(lower)
      maxSlots == IF Present(st.slots) THEN Len(Val(st.slots)) ELSE 0
  IN IF num.nan \/ num.val < 1 \/ num.val > maxSlots THEN 0 ELSE num.val

\* lines 287-290: the slot number, or 0 when the input picks no slot.
SlotNumber(lower, st) ==
  LET num == ParseInt(lower)
      maxSlots == Min(IF Present(st.slots) THEN Len(Val(st.slots)) ELSE 0, SlotDisplay)
  IN IF num.nan \/ num.val < 1 \/ num.val > maxSlots THEN 0 ELSE num.val

\* Faulty variant: 'back' from the slot list drops the whole session.
SlotBackStateBug(st) == IdleState

\* line 283
SlotBackState(st) ==
  [ st EXCEPT !.step = "venue_list", !.pickedVenue = None, !.slots = None ]

\* Faulty variant: declining also forgets the venue list.
DeclineStateBug(st) ==
  [ st EXCEPT !.step = "slot_list", !.pickedSlot = None, !.bookToken = None,
              !.bookExpires = None, !.venues = None ]

\* line 314
DeclineState(st) ==
  [ st EXCEPT !.step = "slot_list", !.pickedSlot = None, !.bookToken = None,
              !.bookExpires = None ]

\* Faulty variant: the comparison of line 320 the wrong way round.
HoldExpiredBug(st, clock) ==
  Present(st.bookExpires) /\ DateGT(Val(st.bookExpires), clock)

\* line 320
HoldExpired(st, clock) ==
  Present(st.bookExpires) /\ DateGT(clock, Val(st.bookExpires))

\* line 321
ExpiredState(st) ==
  [ st EXCEPT !.step = "slot_list", !.pickedSlot = None, !.bookToken = None ]

\* Faulty variant: the payment exit also forgets the venue that was picked.
PaymentStateBug(st) ==
  [ st EXCEPT !.step = "slot_list", !.pickedSlot = None, !.bookToken = None,
              !.pickedVenue = None ]

\* line 335
PaymentState(st) ==
  [ st EXCEPT !.step = "slot_list", !.pickedSlot = None, !.bookToken = None ]

\* Faulty variant: the reset() after a successful booking is left out.
BookedStateBug(st) == st

\* line 330
BookedState(st) == IdleState

\* line 250
VenueListState(search, venues) ==
  [ IdleState EXCEPT !.step = "venue_list", !.search = Some(search),
                     !.venues = Some(venues) ]

\* line 276
SlotListState(st, venue, slots) ==
  [ st EXCEPT !.step = "slot_list", !.pickedVenue = Some(venue),
              !.slots = Some(slots) ]

\* Faulty variant: a hold without an expiry keeps the expiry of an older hold.
ConfirmStateBug(st, slot, bookToken, expires) ==
  [ st EXCEPT !.step = "confirm", !.pickedSlot = Some(slot),
              !.bookToken = Some(bookToken),
              !.bookExpires = IF Present(expires) THEN expires ELSE @ ]

\* line 307
ConfirmState(st, slot, bookToken, expires) ==
  [ st EXCEPT !.step = "confirm", !.pickedSlot = Some(slot),
              !.bookToken = Some(bookToken), !.bookExpires = expires ]

SlotListReply(st) ==
  fmtSlotList(Val(st.pickedVenue), Val(st.slots), Val(st.search).day)

RECURSIVE handleMessage(_, _, _, _)
handleMessage(st, text, clock, depth) ==
  LET lower == Lowered(text) IN
  IF IsResetCommand(lower) THEN Returned(IdleState, ResetReply, depth)
  ELSE IF st.step = "idle" THEN Awaits(st, "extract", None, None, depth)
  ELSE IF st.step = "venue_list" THEN
    IF lower = BACK THEN Returned(IdleState, SearchPrompt, depth)
    ELSE IF VenueNumber(lower, st) = 0
      THEN handleMessage(IdleState, text, clock, depth + 1)
      ELSE Awaits(st, "avail", Some(Val(st.venues)[VenueNumber(lower, st)]),
                  None, depth)
  ELSE IF st.step = "slot_list" THEN
    IF lower = BACK
      THEN Returned(SlotBackState(st),
                    fmtVenueList(Val(st.venues), Val(st.search)), depth)
    ELSE IF SlotNumber(lower, st) = 0
      THEN Returned(st, SlotPrompt(Min(IF Present(st.slots) THEN Len(Val(st.slots)) ELSE 0,
                                       SlotDisplay)), depth)
      ELSE Awaits(st, "details", st.pickedVenue,
                  Some(Val(st.slots)[SlotNumber(lower, st)]), depth)
  ELSE IF st.step = "confirm" THEN
    IF lower \in { NO, BACK }
      THEN Returned(DeclineState(st),
                    << "#noproblem" >> \o SlotListReply(DeclineState(st)), depth)
    ELSE IF lower \in { YES, CONFIRM, BOOK } THEN
      IF HoldExpired(st, clock)
        THEN Returned(ExpiredState(st),
                      << "#expired" >> \o SlotListReply(ExpiredState(st)), depth)
        ELSE Awaits(st, "book", None, None, depth)
    ELSE Returned(st, ConfirmPrompt, depth)
  ELSE handleMessage(IdleState, text, clock, depth + 1)

(***************************************************************************)
(* Gateway loop: the onMessage callback (lines 372-411).                   *)
(***************************************************************************)
\* Set.prototype.add and Set.prototype.delete on an insertion-ordered set.
SetAdd(set, x) == IF x \in Range(set) THEN set ELSE Append(set, x)
\* Faulty variant: the delete empties the whole suppression set.
SetDeleteBug(set, x) == << >>

SetDelete(set, x) ==
  LET Other(y) == y # x IN SelectSeq(set, Other)

PrefixLen == 200

\* Characters one formatted line of a reply stands for: a size of the model,
\* the formatters' lines have no fixed length.
LineWidth == 40

\* Characters in the first k symbols of s.
WidthUpTo(s, k) ==
  LET chars == Cardinality({ i \in 1..k : s[i] \in Chars })
  IN chars + (k - chars) * LineWidth

\* text.slice(0, 200): the symbols that lie wholly within the first 200
\* characters.
Slice200(s) ==
  IF WidthUpTo(s, Len(s)) <= PrefixLen THEN s
  ELSE SubSeq(s, 1, Cardinality({ k \in DOMAIN s : WidthUpTo(s, k) <= PrefixLen }))

\* Faulty variant: the guid is not recorded.
SeenAddBug(seen, guid) == seen

\* line 380
AlreadySeen(seen, guid) == guid \in seen

\* line 381
SeenAdd(seen, guid) == seen \cup { guid }

\* lines 384-388: the position in botSentTexts of the entry the inbound text
\* is taken to echo (the exact text, else the first entry in insertion order
\* with the same first 200 characters), or 0.
EchoMatch(sent, text) ==
  LET exact  == { i \in DOMAIN sent : sent[i] = text }
      prefix == { i \in DOMAIN sent : Slice200(sent[i]) = Slice200(text) }
  IN IF exact # {} THEN CHOOSE i \in exact : TRUE
     ELSE IF prefix # {} THEN CHOOSE i \in prefix : \A j \in prefix : i <= j
     ELSE 0

\* Faulty variant: the busy flag is not consulted.
BusyBug(p) == FALSE

\* line 391
Busy(p) == p

Call(op, arg) == [ op |-> op, arg |-> arg ]

\* The request that goes out when handleMessage suspends at r.pc.
CallOf(r, text) ==
  IF r.pc = "extract" THEN Call("extract", text)
  ELSE IF r.pc = "avail"
    THEN Call("avail", << Val(r.venue).id, Val(r.state.search).day >>)
  ELSE IF r.pc = "details"
    THEN Call("details", << Val(r.slot).token, Val(r.state.search).day,
                            Val(r.state.search).party_size >>)
  ELSE Call("book", << Val(r.state.bookToken) >>)

\* An admitted event: lines 392-399 up to the first await.
Admit(guid, text) ==
  LET r == handleMessage(state, text, now, 0)
      f == [ guid |-> guid, text |-> text, entry |-> state, pc |-> r.pc,
             depth |-> r.depth, search |-> None, venue |-> r.venue,
             slot |-> r.slot, details |-> None, reply |-> r.reply,
             calls |-> IF r.pc = "send" THEN << >>
                       ELSE << CallOf(r, text) >> ]
  IN /\ processing' = TRUE
     /\ state' = r.state
     /\ flights' = flights \cup { f }
     /\ botSentTexts' = IF r.pc = "send" THEN SetAdd(botSentTexts, r.reply)
                        ELSE botSentTexts
     /\ invoked' = invoked (+) SetToBag({ guid })

\* Faulty variant: the guid is recorded after the busy check, so an event
\* dropped as overlapping is not remembered.
onMessageBug(guid, raw, inScope) ==
  LET text == Trim(raw) IN
  IF ~inScope \/ text = << >>
  THEN UNCHANGED << state, botSentTexts, seenGuids, processing, flights, invoked >>
  ELSE IF AlreadySeen(seenGuids, guid)
  THEN UNCHANGED << state, botSentTexts, seenGuids, processing, flights, invoked >>
  ELSE IF EchoMatch(botSentTexts, text) # 0
  THEN /\ seenGuids' = SeenAdd(seenGuids, guid)
       /\ botSentTexts' = SetDelete(botSentTexts, botSentTexts[EchoMatch(botSentTexts, text)])
       /\ UNCHANGED << state, processing, flights, invoked >>
  ELSE IF Busy(processing)
  THEN UNCHANGED << state, botSentTexts, seenGuids, processing, flights, invoked >>
  ELSE /\ seenGuids' = SeenAdd(seenGuids, guid)
       /\ Admit(guid, text)

onMessage(guid, raw, inScope) ==
  LET text == Trim(raw) IN
  IF ~inScope \/ text = << >>
  THEN UNCHANGED << state, botSentTexts, seenGuids, processing, flights, invoked >>
  ELSE IF AlreadySeen(seenGuids, guid)
  THEN UNCHANGED << state, botSentTexts, seenGuids, processing, flights, invoked >>
  ELSE
    /\ seenGuids' = SeenAdd(seenGuids, guid)
    /\ IF EchoMatch(botSentTexts, text) # 0
       THEN /\ botSentTexts' = SetDelete(botSentTexts, botSentTexts[EchoMatch(botSentTexts, text)])
            /\ UNCHANGED << state, processing, flights, invoked >>
       ELSE IF Busy(processing)
       THEN UNCHANGED << state, botSentTexts, processing, flights, invoked >>
       ELSE Admit(guid, text)

(***************************************************************************)
(* The turn in flight: each awaited call answering.                        *)
(***************************************************************************)
Replace(t, u) == (flights \ { t }) \cup { u }

\* handleMessage returns reply: lines 398-399.
Reply(t, st, reply) ==
  /\ state' = st
  /\ flights' = Replace(t, [ t EXCEPT !.pc = "send", !.reply = reply ])
  /\ botSentTexts' = SetAdd(botSentTexts, reply)

\* handleMessage throws: lines 401-405.
Throw(t, message) ==
  /\ state' = state
  /\ flights' = Replace(t, [ t EXCEPT !.pc = "sendErr", !.reply = ErrorReply(message) ])
  /\ botSentTexts' = SetAdd(botSentTexts, ErrorReply(message))

\* Faulty variant: the answer of line 240 is thrown away and extraction is
\* asked for once more.
ExtractReturnsBug(t, search) ==
  /\ t.pc = "extract"
  /\ Len(t.calls) < 3
  /\ flights' = Replace(t, [ t EXCEPT !.calls = Append(@, Call("extract", t.text)) ])
  /\ UNCHANGED << faults, state, botSentTexts, seenGuids, processing, now, nextGuid,
                  echoes, holds, invoked, again, booked >>

\* line 240 answers; line 243 is issued.
ExtractReturns(t, search) ==
  /\ t.pc = "extract"
  /\ flights' = Replace(t, [ t EXCEPT !.pc = "search", !.search = Some(search),
                                      !.calls = Append(@, Call("search", << search.query >> \o search.location)) ])
  /\ UNCHANGED << faults, state, botSentTexts, seenGuids, processing, now, nextGuid,
                  echoes, holds, invoked, again, booked >>

\* line 219
ExtractFails(t) ==
  /\ faults < MaxFaults
  /\ faults' = faults + 1
  /\ t.pc = "extract"
  /\ Throw(t, "extract")
  /\ UNCHANGED << seenGuids, processing, now, nextGuid, echoes, holds, invoked, again, booked >>

\* lines 243-251
SearchReturns(t, hits) ==
  /\ t.pc = "search"
  /\ LET search == Val(t.search)
         venues == parseVenues(hits, search.location)
     IN IF Len(venues) = 0
        THEN Reply(t, state, NoResults(search))
        ELSE Reply(t, VenueListState(search, venues), fmtVenueList(venues, search))
  /\ UNCHANGED << faults, seenGuids, processing, now, nextGuid, echoes, holds, invoked, again, booked >>

\* line 62
SearchFails(t) ==
  /\ faults < MaxFaults
  /\ faults' = faults + 1
  /\ t.pc = "search"
  /\ Throw(t, "search")
  /\ UNCHANGED << seenGuids, processing, now, nextGuid, echoes, holds, invoked, again, booked >>

\* lines 273-277
AvailabilityReturns(t, data) ==
  /\ t.pc = "avail"
  /\ LET venue == Val(t.venue)
         slots == parseSlots(data, venue.id)
     IN Reply(t, SlotListState(state, venue, slots),
              fmtSlotList(venue, slots, Val(state.search).day))
  /\ UNCHANGED << faults, seenGuids, processing, now, nextGuid, echoes, holds, invoked, again, booked >>

\* line 72
AvailabilityFails(t) ==
  /\ faults < MaxFaults
  /\ faults' = faults + 1
  /\ t.pc = "avail"
  /\ Throw(t, "availability")
  /\ UNCHANGED << seenGuids, processing, now, nextGuid, echoes, holds, invoked, again, booked >>

\* What apiDetails answered (line 299): book_token.value and .date_expires.
Details(token, expires) == [ token |-> token, expires |-> expires ]

\* lines 299-308, the response carrying a book token.
DetailsReturns(t, expires) ==
  /\ t.pc = "details"
  /\ holds < MaxHolds
  /\ holds' = holds + 1
  /\ LET details == Details(Some(TokenOf(holds + 1)), expires)
         reply == fmtConfirm(Val(t.venue), Val(t.slot), Val(state.search).day)
     IN /\ state' = ConfirmState(state, Val(t.slot), Val(details.token), details.expires)
        /\ flights' = Replace(t, [ t EXCEPT !.pc = "send", !.reply = reply,
                                            !.details = Some(details) ])
        /\ botSentTexts' = SetAdd(botSentTexts, reply)
  /\ UNCHANGED << faults, seenGuids, processing, now, nextGuid, echoes, invoked, again, booked >>

\* Faulty variant: a response without a book token is raised as an error.
DetailsReturnsNoTokenBug(t) ==
  /\ t.pc = "details"
  /\ Throw(t, "taken")
  /\ UNCHANGED << faults, seenGuids, processing, now, nextGuid, echoes, holds, invoked, again, booked >>

\* lines 299-305, the response carrying no book token.
DetailsReturnsNoToken(t) ==
  /\ t.pc = "details"
  /\ state' = state
  /\ flights' = Replace(t, [ t EXCEPT !.pc = "send", !.reply = SlotTaken,
                                      !.details = Some(Details(None, None)) ])
  /\ botSentTexts' = SetAdd(botSentTexts, SlotTaken)
  /\ UNCHANGED << faults, seenGuids, processing, now, nextGuid, echoes, holds, invoked, again, booked >>

\* line 81
DetailsFails(t) ==
  /\ faults < MaxFaults
  /\ faults' = faults + 1
  /\ t.pc = "details"
  /\ Throw(t, "details")
  /\ UNCHANGED << seenGuids, processing, now, nextGuid, echoes, holds, invoked, again, booked >>

\* lines 328-331; a missing field makes line 329 throw, which line 338 rethrows.
BookReturns(t) ==
  /\ t.pc = "book"
  /\ booked' = booked \cup { t.calls[Len(t.calls)].arg[1] }
  /\ IF Present(state.pickedVenue) /\ Present(state.pickedSlot) /\ Present(state.search)
     THEN Reply(t, BookedState(state),
                fmtSuccess(Val(state.pickedVenue), Val(state.pickedSlot), Val(state.search).day))
     ELSE Throw(t, "TypeError")
  /\ UNCHANGED << faults, seenGuids, processing, now, nextGuid, echoes, holds, invoked, again >>

\* lines 90, 333-336; a missing venue makes line 334 throw.
BookPaymentRequired(t) ==
  /\ t.pc = "book"
  /\ IF Present(state.pickedVenue)
     THEN Reply(t, PaymentState(state), PaymentReply(Val(state.pickedVenue)))
     ELSE Throw(t, "TypeError")
  /\ UNCHANGED << faults, seenGuids, processing, now, nextGuid, echoes, holds, invoked, again, booked >>

\* Faulty variant: a failed booking drops the session.
BookFailsBug(t) ==
  /\ faults < MaxFaults
  /\ faults' = faults + 1
  /\ t.pc = "book"
  /\ state' = IdleState
  /\ flights' = Replace(t, [ t EXCEPT !.pc = "sendErr", !.reply = ErrorReply("booking") ])
  /\ botSentTexts' = SetAdd(botSentTexts, ErrorReply("booking"))
  /\ UNCHANGED << seenGuids, processing, now, nextGuid, echoes, holds, invoked, again, booked >>

\* lines 91, 338
BookFails(t) ==
  /\ faults < MaxFaults
  /\ faults' = faults + 1
  /\ t.pc = "book"
  /\ Throw(t, "booking")
  /\ UNCHANGED << seenGuids, processing, now, nextGuid, echoes, holds, invoked, again, booked >>

\* The guids of the messages the user types.
UserGuids == 1..MaxGuid

\* The guid under which the transport delivers back the reply to event guid:
\* one no other event has.
EchoGuid(guid) == guid + MaxGuid

\* lines 399 or 405 answer, then the finally of line 407.
SendReturns(t) ==
  /\ t.pc \in { "send", "sendErr" }
  /\ echoes' = echoes \cup { [ guid |-> EchoGuid(t.guid), text |-> t.reply ] }
  /\ flights' = flights \ { t }
  /\ processing' = FALSE
  /\ UNCHANGED << faults, state, botSentTexts, seenGuids, now, nextGuid, holds, invoked, again, booked >>

\* line 399 throws: the catch of lines 401-405.
SendFails(t) ==
  /\ faults < MaxFaults
  /\ faults' = faults + 1
  /\ t.pc = "send"
  /\ Throw(t, "send")
  /\ UNCHANGED << seenGuids, processing, now, nextGuid, echoes, holds, invoked, again, booked >>

\* Faulty variant: the rejection of line 405 skips the finally of line 407.
SendErrFailsBug(t) ==
  /\ t.pc = "sendErr"
  /\ flights' = flights \ { t }
  /\ UNCHANGED << faults, state, botSentTexts, seenGuids, processing, now, nextGuid,
                  echoes, holds, invoked, again, booked >>

\* line 405 throws: the finally of line 407, the rejection leaves onMessage.
SendErrFails(t) ==
  /\ t.pc = "sendErr"
  /\ flights' = flights \ { t }
  /\ processing' = FALSE
  /\ UNCHANGED << faults, state, botSentTexts, seenGuids, now, nextGuid, echoes, holds, invoked, again, booked >>

(***************************************************************************)
(* Transport and clock.                                                    *)
(***************************************************************************)
\* The user texts themself: a new self-authored event.
UserSends(raw) ==
  /\ nextGuid <= MaxGuid
  /\ IF echoes = {} THEN faults' = faults
     ELSE faults < MaxFaults /\ faults' = faults + 1
  /\ onMessage(nextGuid, raw, TRUE)
  /\ nextGuid' = nextGuid + 1
  /\ UNCHANGED << now, holds, booked, echoes, again >>

\* A sent reply comes back through the watched chat, unchanged.
EchoArrives(e) ==
  /\ onMessage(e.guid, e.text, TRUE)
  /\ echoes' = echoes \ { e }
  /\ UNCHANGED << now, holds, booked, faults, nextGuid, again >>

\* The transport delivers an event again, with the guid it had.  The text of
\* the event matters only past line 380.
Redelivers(guid) ==
  /\ faults < MaxFaults
  /\ faults' = faults + 1
  /\ again' = again \cup { guid }
  /\ IF AlreadySeen(seenGuids, guid)
     THEN UNCHANGED << state, botSentTexts, seenGuids, processing, flights, invoked >>
     ELSE \E raw \in Texts : onMessage(guid, raw, TRUE)
  /\ UNCHANGED << now, holds, booked, nextGuid, echoes >>

\* An event of another chat, a reaction, or one not from the user
\* (lines 373-374).
OutOfScope(raw) ==
  /\ onMessage(nextGuid, raw, FALSE)
  /\ UNCHANGED << now, holds, booked, faults, nextGuid, echoes, again >>

\* Time passes.  The clock is read only against bookExpires (line 320), so
\* only instants at which the session carries one are told apart.
Tick ==
  /\ now < MaxTime
  /\ Present(state.bookExpires)
  /\ now' = now + 1
  /\ UNCHANGED << state, botSentTexts, seenGuids, processing, flights, nextGuid,
                  echoes, holds, invoked, again, booked, faults >>

\* The turn t moves on: the call it awaits answers or fails.
TurnStep(t) ==
  \/ \E search \in SearchSet : ExtractReturns(t, search)
  \/ ExtractFails(t)
  \/ \E hits \in SearchResponses : SearchReturns(t, hits)
  \/ SearchFails(t)
  \/ \E data \in AvailResponses : AvailabilityReturns(t, data)
  \/ AvailabilityFails(t)
  \/ \E expires \in ExpiryAnswers : DetailsReturns(t, expires)
  \/ DetailsReturnsNoToken(t)
  \/ DetailsFails(t)
  \/ BookReturns(t)
  \/ BookPaymentRequired(t)
  \/ BookFails(t)
  \/ SendReturns(t)
  \/ SendFails(t)
  \/ SendErrFails(t)

Next ==
  \/ (\E raw \in Texts : UserSends(raw)) /\ UNCHANGED pure
  \/ (\E e \in echoes : EchoArrives(e)) /\ UNCHANGED pure
  \/ (\E guid \in (1..(nextGuid - 1)) \cup seenGuids : Redelivers(guid)) /\ UNCHANGED pure
  \/ OutOfScope(RESET) /\ UNCHANGED pure
  \/ Tick /\ UNCHANGED pure
  \/ (\E t \in flights : TurnStep(t)) /\ UNCHANGED pure

Spec == Init /\ [][Next]_vars

\* Every awaited call (extraction, search, availability, hold, commit, send)
\* eventually answers or fails: a turn in flight is not left waiting forever.
Fairness == WF_vars((\E t \in flights : TurnStep(t)) /\ UNCHANGED pure)

SpecLive == Init /\ [][Next]_vars /\ Fairness

(***************************************************************************)
(* Parser check: parseVenues applied to hit lists and locations drawn from *)
(* bounded sets, its result installed as lines 246-250 install it, and the *)
(* post-filter applied once more to its own output.                        *)
(***************************************************************************)
\* Longest hit list tried.
MaxHits == 6

HitKinds == { hitA, hitB, hitD }

HitLists == UNION { [ 1..n -> HitKinds ] : n \in 0..MaxHits }

\* Locations: one with a word that hitA's neighbourhood contains, one with a
\* word that hitD's does, and the empty string, which no hit matches.
Locations ==
  { << "S","o","h","o",","," ","N","Y" >>,
    << "W","e","s","t"," ","L",".","A","." >>,
    << >> }

InitParse ==
  /\ state = IdleState
  /\ botSentTexts = << >>
  /\ seenGuids = {}
  /\ processing = FALSE
  /\ flights = {}
  /\ now = 0
  /\ nextGuid = 1
  /\ echoes = {}
  /\ holds = 0
  /\ invoked = EmptyBag
  /\ again = {}
  /\ booked = {}
  /\ faults = 0
  /\ pvHits \in HitLists
  /\ pvLocation \in Locations
  /\ parsed = None
  /\ passes = 0

\* line 244
ParseHits ==
  /\ passes = 0
  /\ parsed' = Some(parseVenues(pvHits, pvLocation))
  /\ passes' = 1
  /\ UNCHANGED << state, botSentTexts, seenGuids, processing, flights, now, nextGuid,
                  echoes, holds, invoked, again, booked, faults, pvHits, pvLocation >>

\* lines 246-250
InstallVenues ==
  /\ passes >= 1
  /\ state.step = "idle"
  /\ Len(Val(parsed)) # 0
  /\ state' = VenueListState([ query |-> "pizza", location |-> pvLocation,
                               day |-> "d1", party_size |-> 2 ], Val(parsed))
  /\ UNCHANGED << botSentTexts, seenGuids, processing, flights, now, nextGuid,
                  echoes, holds, invoked, again, booked, faults, pure >>

\* lines 106-118, on the list they produced
Refilter ==
  /\ passes = 1
  /\ parsed' = Some(LocationFilter(Val(parsed), pvLocation))
  /\ passes' = 2
  /\ UNCHANGED << state, botSentTexts, seenGuids, processing, flights, now, nextGuid,
                  echoes, holds, invoked, again, booked, faults, pvHits, pvLocation >>

NextParse ==
  \/ ParseHits
  \/ InstallVenues
  \/ Refilter

SpecParse == InitParse /\ [][NextParse]_vars

(***************************************************************************)
(* Slot step check: the session stands in slot_list (line 276) over slot   *)
(* lists longer than the ten that are offered, and the user answers with   *)
(* numbers around that limit.                                              *)
(***************************************************************************)
\* Longest slot list tried.
MaxSlots == 12

\* data.results.venues[0].slots of an availability response with n slots,
\* each with a config token of its own.
RawRun(n) ==
  [ i \in 1..n |->
      RawSlot(Some(<< "6","-","2"," ","1","9",":","0","0",":","0","0" >>),
              None, Some(ToString(i))) ]

SlotRuns ==
  { parseSlots(<< [ id |-> Some("v1"), slots |-> Some(RawRun(n)) ] >>, "v1") :
      n \in 0..MaxSlots }

SlotTexts == { << "1" >>, << "1","0" >>, << "1","1" >>, << "1","2" >> }

InitSlots ==
  /\ \E search \in SearchSet : \E slots \in SlotRuns :
       LET venues == parseVenues(<< hitB, hitA >>, search.location)
       IN state = SlotListState(VenueListState(search, venues), venues[1], slots)
  /\ botSentTexts = << >>
  /\ seenGuids = {}
  /\ processing = FALSE
  /\ flights = {}
  /\ now = 0
  /\ nextGuid = 1
  /\ echoes = {}
  /\ holds = 0
  /\ invoked = EmptyBag
  /\ again = {}
  /\ booked = {}
  /\ faults = 0
  /\ pvHits = << >>
  /\ pvLocation = << >>
  /\ parsed = None
  /\ passes = 0

NextSlots ==
  \/ (\E raw \in SlotTexts : UserSends(raw)) /\ UNCHANGED pure
  \/ (\E e \in echoes : EchoArrives(e)) /\ UNCHANGED pure
  \/ /\ UNCHANGED pure
     /\ \E t \in flights :
          \/ \E expires \in ExpiryAnswers : DetailsReturns(t, expires)
          \/ DetailsReturnsNoToken(t)
          \/ DetailsFails(t)
          \/ SendReturns(t)
          \/ SendFails(t)
          \/ SendErrFails(t)

SpecSlots == InitSlots /\ [][NextSlots]_vars

(***************************************************************************)
(* Properties.  A turn in flight t carries the session it was admitted     *)
(* with (t.entry), the text it handles, the requests it has issued so far  *)
(* (t.calls) and, once handleMessage has returned, its reply.              *)
(***************************************************************************)
AsksReset(text) == Trim(ToLowerCase(text)) \in { RESET, STARTOVER }

LastCall(t) == t.calls[Len(t.calls)]

\* The first line of the turn's reply, which tells the kind of reply.
ReplyKind(t) == IF t.reply = << >> THEN "" ELSE Head(t.reply)

\* The turn has reached the success return of the commit call.
Committed(t) ==
  /\ t.calls # << >>
  /\ LastCall(t).op = "book"
  /\ t.pc # "book"
  /\ LastCall(t).arg[1] \in booked

\* The step table, one row per step the turn starts in.
StepPair(from, to) ==
  \/ from = "idle"       /\ to \in { "idle", "venue_list" }
  \/ from = "venue_list" /\ to \in { "idle", "venue_list", "slot_list" }
  \/ from = "slot_list"  /\ to \in { "idle", "venue_list", "slot_list", "confirm" }
  \/ from = "confirm"    /\ to \in { "idle", "slot_list", "confirm" }

TurnAllowed(t) ==
  /\ StepPair(t.entry.step, state.step)
  /\ (t.entry.step = "slot_list" /\ state.step = "idle") => AsksReset(t.text)
  /\ (t.entry.step = "confirm" /\ state.step = "idle")
       => (AsksReset(t.text) \/ Committed(t))

\* C1: every change of step is one the transition table allows: from idle to
\* idle or venue_list; from venue_list to idle, venue_list or slot_list; from
\* slot_list to venue_list, slot_list or confirm, and to idle only on the reset
\* command; from confirm to slot_list or confirm, and to idle only on the reset
\* command or on a successful commit.  The step changes only within a turn.
C1_StepTable ==
  /\ [](\A t \in flights : TurnAllowed(t))
  /\ [][ state'.step # state.step
           => (flights' # {} /\ StepPair(state.step, state'.step)) ]_vars

\* A turn that started in confirm has committed and left the session idle.
C1_Witness ==
  \E t \in flights :
    t.entry.step = "confirm" /\ Committed(t) /\ state.step = "idle"

\* C2: a book token for which the commit call has succeeded is never the
\* argument of a commit call again, whatever the user sends afterwards.
C2_BookAtMostOnce ==
  \A t \in flights :
    \A i \in DOMAIN t.calls :
      (t.calls[i].op = "book" /\ t.pc = "book") => t.calls[i].arg[1] \notin booked

\* A booking has succeeded and the user says yes once more: the turn goes to
\* the model as a new search, no commit call is issued.
C2_Witness ==
  /\ booked # {}
  /\ \E t \in flights :
       /\ Trim(ToLowerCase(t.text)) = YES
       /\ t.entry = IdleState
       /\ t.calls # << >>
       /\ \A i \in DOMAIN t.calls : t.calls[i].op # "book"

\* The hold's expiry is a valid instant that lies before the clock.
PastExpiry(expires, clock) ==
  Present(expires) /\ Val(expires) # NaNTime /\ Val(expires) < clock

\* C3: a turn admitted while the session's bookExpires is present and earlier
\* than the current time issues no commit call.
C3_ExpiredHoldNotCommitted ==
  [][ \A t \in flights' :
        (t.guid \notin { u.guid : u \in flights } /\ PastExpiry(state.bookExpires, now))
          => (t.pc # "book" /\ \A i \in DOMAIN t.calls : t.calls[i].op # "book") ]_vars

\* The user has said yes on a hold that had run out: the turn answers that the
\* hold expired and has issued no call.
C3_Witness ==
  \E t \in flights :
    /\ t.entry.step = "confirm"
    /\ Trim(ToLowerCase(t.text)) \in { YES, CONFIRM, BOOK }
    /\ PastExpiry(t.entry.bookExpires, now)
    /\ ReplyKind(t) = "#expired"
    /\ t.calls = << >>

\* C4: at most one handleMessage invocation is in flight at any time, and an
\* event that reaches the gateway while processing is true starts no
\* invocation, changes no session field and sends nothing.
C4_SingleFlight ==
  /\ [](Cardinality(flights) <= 1 /\ (flights # {} => processing))
  /\ [][ (processing /\ seenGuids' # seenGuids)
           => /\ flights' = flights
              /\ invoked' = invoked
              /\ state' = state
              /\ echoes' \subseteq echoes
              /\ Range(botSentTexts') \subseteq Range(botSentTexts) ]_vars

\* A message of the user was recorded while a turn was in flight and was never
\* handled.
C4_Witness ==
  /\ flights # {}
  /\ \E guid \in seenGuids : guid \in UserGuids /\ ~BagIn(guid, invoked)

\* C5: handleMessage is invoked at most once for any guid, however often the
\* transport delivers the event.
C5_OncePerGuid ==
  \A guid \in BagToSet(invoked) : CopiesIn(guid, invoked) <= 1

\* An event that was handled has been delivered a second time.
C5_Witness ==
  \E guid \in again : CopiesIn(guid, invoked) = 1

\* C6: every reply the bot has sent is discarded when the transport delivers
\* it back: no echo is ever passed to handleMessage, also when two turns
\* produce the same reply text and when echoes arrive late.
C6_EchoesDiscarded ==
  \A guid \in BagToSet(invoked) : guid \in UserGuids

\* C7: from every step, a message that is 'reset' or 'start over' after
\* trimming and lower-casing leaves the session idle with every field absent,
\* issues no external call and takes precedence over the step's own handling.
C7_ResetFromAnywhere ==
  \A t \in flights :
    AsksReset(t.text)
      => /\ state = IdleState
         /\ t.calls = << >>
         /\ t.pc \in { "send", "sendErr" }
         /\ (t.pc = "send" => t.reply = ResetReply)

\* 'Start Over', typed with a leading blank in the confirm step.
C7_Witness ==
  \E t \in flights :
    /\ AsksReset(t.text)
    /\ t.text # RESET
    /\ t.entry.step = "confirm"
    /\ Present(t.entry.bookToken)
    /\ state = IdleState

Absent(st, fields) == \A f \in fields : st[f] = None
Filled(st, fields) == \A f \in fields : Present(st[f])

\* C8: each session field is populated only in the steps that need it: idle
\* has every field absent; venue_list has search and venues and nothing else;
\* slot_list adds pickedVenue and slots and has pickedSlot, bookToken and
\* bookExpires absent; confirm adds pickedSlot and bookToken.  Every exit from
\* confirm clears bookToken and bookExpires.
C8_FieldsPerStep ==
  /\ state.step = "idle" => state = IdleState
  /\ state.step = "venue_list"
       => /\ Filled(state, { "search", "venues" })
          /\ Absent(state, { "pickedVenue", "slots", "pickedSlot", "bookToken",
                             "bookExpires" })
  /\ state.step = "slot_list"
       => /\ Filled(state, { "search", "venues", "pickedVenue", "slots" })
          /\ Absent(state, { "pickedSlot", "bookToken", "bookExpires" })
  /\ state.step = "confirm"
       => Filled(state, { "search", "venues", "pickedVenue", "slots",
                          "pickedSlot", "bookToken" })
  /\ \A t \in flights :
       (t.entry.step = "confirm" /\ state.step # "confirm")
         => Absent(state, { "bookToken", "bookExpires" })

\* The text is a decimal integer and nothing else.
IsInteger(lower) ==
  lower # << >> /\ \A i \in DOMAIN lower : lower[i] \in DigitSet

\* The text is an integer that numbers one of the venues of session st.
NumbersVenue(lower, st) ==
  IsInteger(lower) /\ DecimalValue(lower) \in 1..Len(Val(st.venues))

\* C9: in venue_list an integer i within 1..len(venues) issues the
\* availability call for venues[i-1].id; when the call returns the session is
\* in slot_list with pickedVenue = venues[i-1] and slots set to the parsed
\* slots, empty or not.  An input that is out of range or not a number never
\* sets pickedVenue.
C9_VenuePick ==
  \A t \in flights :
    t.entry.step = "venue_list" =>
      LET lower == Trim(ToLowerCase(t.text))
          venues == Val(t.entry.venues)
      IN IF NumbersVenue(lower, t.entry)
         THEN LET venue == venues[DecimalValue(lower)] IN
              /\ t.calls # << >>
              /\ t.calls[1] = Call("avail", << venue.id, Val(t.entry.search).day >>)
              /\ t.pc = "send"
                   => /\ state.step = "slot_list"
                      /\ state.pickedVenue = Some(venue)
                      /\ Present(state.slots)
                      /\ state.search = t.entry.search
                      /\ state.venues = t.entry.venues
         ELSE state.pickedVenue = None

\* The three replies with which a turn leaves confirm for the slot list: the
\* user declined, the hold had expired, the commit call asked for payment.
ExitReplies == { "#noproblem", "#expired", "#payment" }

\* C10: each of the three exits from confirm to slot_list ('no' or 'back', an
\* expired hold on 'yes', payment required by the commit call) leaves
\* pickedSlot and bookToken absent and search, venues, pickedVenue and slots
\* as they were.
C10_ConfirmExits ==
  \A t \in flights :
    t.entry.step = "confirm" =>
      /\ (Trim(ToLowerCase(t.text)) \in { NO, BACK } /\ t.pc = "send")
           => ReplyKind(t) = "#noproblem"
      /\ (t.pc = "send" /\ ReplyKind(t) \in ExitReplies)
           => /\ state.step = "slot_list"
              /\ Absent(state, { "pickedSlot", "bookToken" })
              /\ \A f \in { "search", "venues", "pickedVenue", "slots" } :
                   Present(state[f]) /\ state[f] = t.entry[f]
      /\ state.step = "slot_list"
           => (t.pc = "sendErr" \/ ReplyKind(t) \in ExitReplies)

\* The commit call has answered that a payment method is required and the
\* session is back in the slot list.
C10_Witness ==
  \E t \in flights :
    /\ t.entry.step = "confirm"
    /\ t.calls # << >>
    /\ LastCall(t).op = "book"
    /\ ReplyKind(t) = "#payment"
    /\ state.step = "slot_list"

\* The turn t as it is after the step, if it is still in flight.
After(t, turns) == { u \in turns : u.guid = t.guid }

\* C11: in slot_list, when an in-range slot number was chosen and the hold
\* call answers without a book token (no token is issued, no call fails),
\* handleMessage returns the slot-taken reply as a normal reply and the
\* session is as it was when the turn began: still slot_list, same slots and
\* pickedVenue, no pickedSlot, no bookToken.
C11_SlotTaken ==
  [][ \A t \in flights :
        (t.pc = "details" /\ t \notin flights' /\ holds' = holds /\ faults' = faults)
          => /\ state' = t.entry
             /\ state'.step = "slot_list"
             /\ state'.slots = t.entry.slots
             /\ state'.pickedVenue = t.entry.pickedVenue
             /\ state'.pickedSlot = None
             /\ state'.bookToken = None
             /\ \A u \in After(t, flights') : u.pc = "send" /\ u.reply = SlotTaken
             /\ After(t, flights') # {} ]_vars

\* The slot was just taken, the session is unchanged, and the user picks the
\* slot again: a second hold call goes out from the same session.
C11_Witness ==
  /\ SlotTaken \in Range(botSentTexts)
  /\ \E t \in flights :
       /\ t.entry.step = "slot_list"
       /\ t.pc = "details"
       /\ state = t.entry

\* The commit calls the turn has issued.
BookCalls(t) == { i \in DOMAIN t.calls : t.calls[i].op = "book" }

\* C12: when the commit call fails with a status other than 402, the error
\* reaches the gateway, which sends one error reply and ends the turn; no second
\* commit call is issued in the turn, and the session is as it was before the
\* turn: confirm, with the same pickedSlot and bookToken.
C12_BookingFailure ==
  /\ [][ \A t \in flights :
           (t.pc = "book" /\ t \notin flights' /\ faults' = faults + 1)
             => /\ state' = t.entry
                /\ state'.step = "confirm"
                /\ Present(state'.pickedSlot)
                /\ Present(state'.bookToken)
                /\ After(t, flights') # {}
                /\ \A u \in After(t, flights') :
                     /\ u.pc = "sendErr"
                     /\ ReplyKind(u) = "#error"
                     /\ u.calls = t.calls
                     /\ Cardinality(BookCalls(u)) = 1 ]_vars
  /\ [][ \A t \in flights :
           (t.pc = "sendErr" /\ t \notin flights')
             => /\ After(t, flights') = {}
                /\ Cardinality(echoes' \ echoes) <= 1
                /\ state' = state ]_vars

\* The commit call has failed: the error reply is on its way and the session
\* is still the confirm session the turn began with.
C12_Witness ==
  \E t \in flights :
    /\ t.pc = "sendErr"
    /\ t.calls # << >>
    /\ LastCall(t).op = "book"
    /\ t.reply = ErrorReply("booking")
    /\ state = t.entry
    /\ state.step = "confirm"
    /\ state.bookToken = Some(LastCall(t).arg[1])

\* The turn's intent extraction has failed.
ExtractionFailed(t) ==
  /\ t.pc = "sendErr"
  /\ t.calls # << >>
  /\ LastCall(t).op = "extract"
  /\ t.reply = ErrorReply("extract")

\* C13: whenever intent extraction fails during a turn, the session is
\* identical to the session before the turn and extraction is not retried,
\* from idle and from venue_list alike.
C13_ExtractionFailure ==
  \A t \in flights :
    ExtractionFailed(t) => (state = t.entry /\ Len(t.calls) = 1)

\* The text is an integer that numbers one of the slots on display for st.
NumbersSlot(lower, st) ==
  /\ IsInteger(lower)
  /\ DecimalValue(lower) \in 1..Min(Len(Val(st.slots)), SlotDisplay)

\* C14: re-prompt inputs change nothing.  In slot_list an input that is not
\* reset/start over, not 'back' and not an integer within
\* 1..min(len(slots), 10), and in confirm an input that is none of reset/start
\* over, no, back, yes, confirm, book, leaves every session field unchanged and
\* issues no external call; with no slots only 'back' and reset change the
\* session.
C14_RepromptsChangeNothing ==
  \A t \in flights :
    LET lower == Trim(ToLowerCase(t.text)) IN
    /\ (/\ t.entry.step = "slot_list"
        /\ ~AsksReset(t.text)
        /\ lower # BACK
        /\ ~NumbersSlot(lower, t.entry))
         => (state = t.entry /\ t.calls = << >>)
    /\ (/\ t.entry.step = "confirm"
        /\ ~AsksReset(t.text)
        /\ lower \notin { NO, BACK, YES, CONFIRM, BOOK })
         => (state = t.entry /\ t.calls = << >>)

\* C15: in venue_list an input that is not reset/start over, not 'back' and
\* not an integer within 1..len(venues) is handled as that same text is from a
\* freshly reset idle session: the text the gateway passed in goes to
\* extraction, only extraction and search are called, and the session is idle
\* until the new search has produced a venue list of its own.
C15_FallbackIsNewSearch ==
  \A t \in flights :
    (/\ t.entry.step = "venue_list"
     /\ ~AsksReset(t.text)
     /\ Trim(ToLowerCase(t.text)) # BACK
     /\ ~NumbersVenue(Trim(ToLowerCase(t.text)), t.entry))
      => /\ t.calls # << >>
         /\ t.calls[1] = Call("extract", t.text)
         /\ \A i \in DOMAIN t.calls : t.calls[i].op \in { "extract", "search" }
         /\ \/ state = IdleState
            \/ /\ t.pc \in { "send", "sendErr" }
               /\ Present(t.search)
               /\ state.step = "venue_list"
               /\ state = VenueListState(Val(t.search), Val(state.venues))

\* C16: search and venues are written only by the idle -> venue_list
\* transition and erased only by a full reset.  At every point of a turn they
\* are what they were when the turn began, unless the session has been reset
\* to idle, or a search started from idle (directly or after the venue_list
\* fallback reset) has written a venue list of its own.
C16_SearchAndVenuesFrame ==
  \A t \in flights :
    \/ state.search = t.entry.search /\ state.venues = t.entry.venues
    \/ state = IdleState
    \/ /\ t.entry.step = "idle" \/ t.depth > 0
       /\ Present(t.search)
       /\ state = VenueListState(Val(t.search), Val(state.venues))

\* 'back' from the slot list: the venue list is shown again, retained.
C16_Witness ==
  \E t \in flights :
    /\ t.entry.step = "slot_list"
    /\ Trim(ToLowerCase(t.text)) = BACK
    /\ state.step = "venue_list"
    /\ Present(state.venues)
    /\ state.venues = t.entry.venues
    /\ state.search = t.entry.search

\* The hits as venues, and the positions parseVenues is to keep: those of the
\* hits in the searched place, or all of them when there is none.
AllVenues == [ i \in DOMAIN pvHits |-> ToVenue(pvHits[i]) ]
LocalAt == { i \in DOMAIN pvHits : IsLocal(AllVenues[i], pvLocation) }
KeptAt == IF LocalAt # {} THEN LocalAt ELSE DOMAIN pvHits

\* The k-th position of KeptAt, in upstream order.
KeptNth(k) == CHOOSE i \in KeptAt : Cardinality({ j \in KeptAt : j <= i }) = k

\* C17: parseVenues returns at most 5 venues in upstream order: the first 5
\* of the hits whose city or neighbourhood contains a location word longer
\* than 2 characters, or the first 5 of all hits when no hit matches; it
\* returns the empty list only for an empty hit list.  A venue list installed
\* in the session is therefore non-empty and has at most 5 entries.
C17_ParseVenues ==
  /\ passes >= 1 =>
       LET out == Val(parsed) IN
       /\ Len(out) <= 5
       /\ Len(out) = Min(Cardinality(KeptAt), 5)
       /\ \A k \in DOMAIN out : out[k] = AllVenues[KeptNth(k)]
       /\ (out = << >>) <=> (pvHits = << >>)
  /\ state.step \in { "venue_list", "slot_list", "confirm" } =>
       /\ Present(state.venues)
       /\ Len(Val(state.venues)) \in 1..5

\* Six hits, five of them in the searched place: the other one is dropped,
\* the five are installed as the venue list.
C17_Witness ==
  /\ passes >= 1
  /\ Len(pvHits) = 6
  /\ Cardinality(LocalAt) = 5
  /\ Len(Val(parsed)) = 5
  /\ state.step = "venue_list"
  /\ state.venues = parsed

\* C18: location post-filtering is idempotent: the filter of parseVenues,
\* with its fallback and cap, applied to its own output with the same
\* location returns the same list.
C18_FilterIdempotent ==
  [][ (passes = 1 /\ passes' = 2) => parsed' = parsed ]_vars

\* The filter has been applied to its own output, a list of several venues
\* that is shorter than the hit list it came from.
C18_Witness ==
  /\ passes = 2
  /\ Len(Val(parsed)) >= 2
  /\ Len(Val(parsed)) < Len(pvHits)
  /\ Val(parsed)[1] # Val(parsed)[2]

\* The slot that the turn's text numbers in the list the turn started with.
NumberedSlot(t) == Val(t.entry.slots)[DecimalValue(Lowered(t.text))]

\* C19: in slot_list, an integer i with 1 <= i <= min(len(slots), 10) issues
\* exactly one hold call, with the config token of slots[i-1] and the
\* session's day and party size; once the response carries a book token the
\* session is the one the turn started with except step = confirm,
\* pickedSlot = slots[i-1], bookToken = the returned token and bookExpires =
\* the returned expiry (absent if none was returned).  No slot at position 11
\* or later is ever pickedSlot.
C19_SlotPick ==
  /\ \A t \in flights :
       (t.entry.step = "slot_list" /\ NumbersSlot(Lowered(t.text), t.entry)) =>
         /\ t.calls = << Call("details", << NumberedSlot(t).token,
                                           Val(t.entry.search).day,
                                           Val(t.entry.search).party_size >>) >>
         /\ (Present(t.details) /\ Present(Val(t.details).token)) =>
              state = [ t.entry EXCEPT !.step = "confirm",
                                       !.pickedSlot = Some(NumberedSlot(t)),
                                       !.bookToken = Val(t.details).token,
                                       !.bookExpires = Val(t.details).expires ]
  /\ Present(state.pickedSlot) =>
       \A i \in DOMAIN Val(state.slots) :
         i > SlotDisplay => Val(state.slots)[i] # Val(state.pickedSlot)

\* The tenth of more than ten slots is held with no expiry returned.
C19_Witness ==
  \E t \in flights :
    /\ t.entry.step = "slot_list"
    /\ NumbersSlot(Lowered(t.text), t.entry)
    /\ Len(Val(t.entry.slots)) > SlotDisplay
    /\ DecimalValue(Lowered(t.text)) = SlotDisplay
    /\ state.step = "confirm"
    /\ state.pickedSlot = Some(Val(state.slots)[SlotDisplay])
    /\ state.bookToken = Val(t.details).token
    /\ ~Present(state.bookExpires)

\* The step delivers the sent reply e back as an event with a guid not seen
\* before (lines 380-381 are passed).
Delivers(e) == e \in echoes /\ echoes' = echoes \ { e } /\ e.guid \notin seenGuids

Holding(t) == Present(t.details) /\ Present(Val(t.details).token)

\* C21: whenever step = confirm, bookExpires is the expiry returned by the
\* hold call that produced the current bookToken, absent when it returned
\* none.  Every entry to confirm installs the token and the expiry of the
\* hold call that has just answered, whatever bookExpires the session held
\* before; while the session stays in confirm neither changes; and a turn is
\* answered 'hold expired' only when the clock is past that expiry.
C21_ExpiryOfCurrentHold ==
  /\ [][ (state'.step = "confirm" /\ state.step # "confirm") =>
            \E t \in flights' :
              /\ Holding(t)
              /\ t.pc = "send"
              /\ t.entry = state
              /\ state'.bookToken = Val(t.details).token
              /\ state'.bookExpires = Val(t.details).expires ]_vars
  /\ [][ (state'.step = "confirm" /\ state.step = "confirm") =>
            /\ state'.bookToken = state.bookToken
            /\ state'.bookExpires = state.bookExpires ]_vars
  /\ [][ \A t \in flights' \ flights :
            (t.guid \notin { u.guid : u \in flights } /\ ReplyKind(t) = "#expired") =>
              /\ t.entry = state
              /\ state.step = "confirm"
              /\ Present(state.bookExpires)
              /\ DateGT(now, Val(state.bookExpires)) ]_vars

\* A hold that returned no expiry has replaced the expiry an earlier hold
\* left in the session.
C21_Witness ==
  \E t \in flights :
    /\ Holding(t)
    /\ t.entry.step = "slot_list"
    /\ Present(t.entry.bookExpires)
    /\ state.step = "confirm"
    /\ state.bookToken = Val(t.details).token
    /\ Val(t.details).expires = None
    /\ state.bookExpires = None

\* C22: processing is true exactly while an admitted turn is in flight, and
\* false again once the turn has ended, whether handleMessage returned or
\* threw or a send failed; a message of the user that arrives while
\* processing is false is admitted; and, every awaited call answering or
\* failing in the end, a busy gateway always becomes free again.
C22_BusyOnlyWhileInFlight ==
  /\ [](processing <=> flights # {})
  /\ [][ (~processing /\ nextGuid' # nextGuid) =>
            /\ processing'
            /\ invoked' = invoked (+) SetToBag({ nextGuid })
            /\ \E t \in flights' : t.guid = nextGuid ]_vars
  /\ (processing ~> ~processing)

\* A turn is in flight after an earlier turn ended in a failed send: the
\* error reply of that turn is on record and is not this turn's.
C22_Witness ==
  \E t \in flights :
    /\ processing
    /\ ErrorReply("send") \in Range(botSentTexts)
    /\ t.reply # ErrorReply("send")
    /\ t.guid \in UserGuids

\* The messages of the user that have arrived and were not passed to
\* handleMessage: those that arrived while a turn was in flight.
Dropped == { guid \in 1..(nextGuid - 1) : ~BagIn(guid, invoked) }

\* C23: a message that arrives while processing is true is dropped with its
\* guid recorded as seen, and a dropped message is never passed to
\* handleMessage afterwards, also not when the transport delivers it again
\* once the turn in flight has ended: a redelivery of it starts no turn and
\* changes neither the session nor the suppression set.
C23_OverlappingInputIsLost ==
  /\ [](Dropped \subseteq seenGuids)
  /\ [][ (processing /\ nextGuid' # nextGuid) =>
            /\ nextGuid \in seenGuids'
            /\ nextGuid \in Dropped'
            /\ UNCHANGED << state, flights, invoked, botSentTexts >> ]_vars
  /\ [][ Dropped \subseteq Dropped' ]_vars
  /\ [][ \A guid \in Dropped :
            (guid \in again' \ again) =>
              UNCHANGED << state, flights, invoked, botSentTexts, processing, seenGuids >> ]_vars

\* A message dropped as overlapping was delivered again, no turn is in flight
\* and the message was still not handled.
C23_Witness ==
  \E guid \in Dropped :
    /\ guid \in again
    /\ ~processing
    /\ flights = {}
    /\ \E other \in 1..(guid - 1) : BagIn(other, invoked)

\* How many of the turn's requests so far went to the service op.
CallCount(t, op) == Cardinality({ i \in DOMAIN t.calls : t.calls[i].op = op })

\* What is left of a turn at each await: a bound on its remaining steps.
Rank(pc) ==
  IF pc = "extract" THEN 4
  ELSE IF pc \in { "search", "avail", "details", "book" } THEN 3
  ELSE IF pc = "send" THEN 2
  ELSE 1

\* C24: every handleMessage invocation terminates when its external calls
\* return.  It re-dispatches itself at most once, only from venue_list and
\* into the idle session a reset leaves, and never from idle; a turn issues
\* at most one extraction call and at most one search call; every step of a
\* turn brings it nearer to its end; and every turn in flight ends.
C24_HandleMessageTerminates ==
  /\ [](\A t \in flights :
          /\ t.depth <= 1
          /\ t.depth = 1 => /\ t.entry.step = "venue_list"
                            /\ t.calls # << >>
                            /\ t.calls[1].op = "extract"
                            /\ t.pc \in { "extract", "search" } => state = IdleState
          /\ t.entry.step = "idle" => t.depth = 0
          /\ CallCount(t, "extract") <= 1
          /\ CallCount(t, "search") <= 1)
  /\ [][ \A t \in flights :
            t \notin flights' =>
              \A u \in flights' : u.guid = t.guid => Rank(u.pc) < Rank(t.pc) ]_vars
  /\ ((flights # {}) ~> (flights = {}))

\* A turn that began in venue_list has re-dispatched itself, extracted and
\* searched once each and returned a new venue list.
C24_Witness ==
  \E t \in flights :
    /\ t.depth = 1
    /\ t.pc = "send"
    /\ CallCount(t, "extract") = 1
    /\ CallCount(t, "search") = 1
    /\ state.step = "venue_list"
    /\ state # t.entry

====
